---- MODULE Spec2Model ----
(***************************************************************************)
(* A model of the wallet session of My-Wallet-V3 (wallet.js): the          *)
(* coalesced write-back (MyWallet.syncWallet = asyncOnce(syncWallet,1500)),*)
(* the fetch path (MyWallet.getWallet), the live-update message handler    *)
(* (onMessage) and MyWallet.logout.                                        *)
(*                                                                         *)
(* Every handler of the code is one action.  Network requests that are     *)
(* outstanding are part of the state (push, fetches, loggingOut); their    *)
(* responses are separate actions, so every interleaving of triggers,      *)
(* timer expiries, frames and responses is explored.                       *)
(***************************************************************************)
EXTENDS Integers, Sequences, FiniteSets, Bags, TLC

(* ------------------------------ bounds -------------------------------- *)
\* wallet record contents are 0..MaxRec
MaxRec == 1
\* time advances in steps of TickStep
TickStep == 750
\* at most MaxFetches wallet.aes.json requests are outstanding
MaxFetches == 1
\* at most MaxBurst triggers are counted per scheduled push
MaxBurst == 2
\* at most MaxLogins requests of MyWallet.login are outstanding
MaxLogins == 1
\* poll requests and poll timers outstanding at a time
MaxPolls == 2

(* -------------------------- program constants ------------------------- *)
\* asyncOnce(syncWallet, 1500, ...)
Interval == 1500
\* sharedKey.length !== 36
SharedKeyLength == 36
\* two_factor_auth.code.length > 255
MaxCodeLength == 255
\* WalletStore.getCounter() < 600
PollLimit == 600

(* ------------------------------ values -------------------------------- *)
Recs == 0 .. MaxRec
\* null / undefined / '' of the code (loosely equal to each other)
NoChecksum == -1
NoTimer == -1
KeyLens == {SharedKeyLength, 10, 0}
Passwords == {"pw"}

\* WalletCrypto.encryptWallet on a sound run: the ciphertext of record r under pw
Encrypt(r, pw) == [data |-> r, key |-> pw]
\* a zero-length ciphertext
EmptyCiphertext == [data |-> -1, key |-> ""]
\* a ciphertext no password of the session decrypts
Garbled == [data |-> -1, key |-> "other"]
Ciphertexts == {Encrypt(r, pw) : r \in Recs, pw \in Passwords} \cup {Garbled}

Length(c) == IF c = EmptyCiphertext THEN 0 ELSE 1

\* WalletCrypto.decryptWallet: succeeds exactly on a ciphertext made under pw
CanDecrypt(c, pw) == c.key = pw /\ c.data \in Recs
Decrypt(c, pw) == c.data

\* WalletStore.generatePayloadChecksum: a deterministic hash of the ciphertext
generatePayloadChecksum(c) ==
  IF c = EmptyCiphertext THEN NoChecksum
  ELSE IF c.key = "other" THEN 100 ELSE c.data
Checksums == {generatePayloadChecksum(c) : c \in Ciphertexts}

\* the wallet identifier; every payload the store holds is of the wallet "G"
NoGuid == ""
Guids == {"G"}
PayloadGuid(c) == "G"

VARIABLES
  wallet,                   \* MyWallet.wallet: rec, sharedKeyLen, isEncryptionConsistent
  password,                 \* WalletStore.getPassword()
  isInitialized,            \* var isInitialized
  encryptedWalletData,      \* WalletStore: the stored ciphertext
  payloadChecksum,          \* WalletStore: the stored checksum
  isSynchronizedWithServer, \* WalletStore flag
  isLogoutDisabled,         \* WalletStore flag
  last_on_change,           \* closure variable of socketConnect
  timer,                    \* asyncOnce: NoTimer, or the time elapsed since the last trigger
  syncArgs,                 \* asyncOnce: the callbacks handed to the scheduled syncWallet
  burst,                    \* number of triggers the scheduled push stands for
  push,                     \* the push in flight: phase, payload, cb
  fetches,                  \* bag of outstanding wallet.aes.json requests of getWallet
  remote,                   \* the ciphertext the remote store holds
  loggingOut,               \* a wallet/logout request is outstanding
  halted,                   \* the page was reloaded or replaced
  called                    \* what the handler that ran last reported to its caller:
                            \* the callbacks it invoked and what it threw, in order

VARIABLES
  guid,                     \* WalletStore.getGuid()
  walletGuid,               \* MyWallet.wallet.guid
  isRestoringWallet,        \* WalletStore flag
  logins,                   \* bag of outstanding requests of MyWallet.login
  authorizations,           \* the passwords of the logins whose authorizationRequired
                            \* callback was handed the function that starts the poll
  server,                   \* how the server treats the wallet and this device
  socket,                   \* MyWallet.ws: connects, open, subscribed (the guid announced)
  isPolling,                \* WalletStore flag
  counter,                  \* WalletStore.getCounter()
  poll,                     \* the device-authorization poll: phase, sent, retry
  address                   \* one Address object: label, priv (or NoAddress)

\* the state of the login, of the live-update socket, of the poll and of the Address
loginVars == << guid, walletGuid, isRestoringWallet, logins, authorizations, server >>
pollVars == << isPolling, counter, poll >>
newVars == << loginVars, socket, pollVars, address >>

vars == << wallet, password, isInitialized, encryptedWalletData, payloadChecksum,
           isSynchronizedWithServer, isLogoutDisabled, last_on_change, timer,
           syncArgs, burst, push, fetches, remote, loggingOut, halted, called,
           guid, walletGuid, isRestoringWallet, logins, authorizations, server,
           socket, isPolling, counter, poll, address >>

\* the wallet of a page that holds none
NoWallet == [rec |-> 0, sharedKeyLen |-> 0, isEncryptionConsistent |-> FALSE]

IdlePush == [phase |-> "idle", payload |-> EmptyCiphertext, cb |-> FALSE]

\* MyWallet.ws before socketConnect
NoSocket == [connects |-> 0, open |-> FALSE, subscribed |-> NoGuid]
\* no poll is active
IdlePoll == [requests |-> 0, timers |-> 0, sent |-> 0, retry |-> ""]
\* no Address object
NoAddress == [exists |-> FALSE, label |-> "undefined", priv |-> "null",
              temporal_priv |-> "undefined"]

\* Of the calls a handler makes, the requests are kept in the state (push,
\* fetches, loggingOut); the callbacks and the exceptions are kept in `called`.
\* ("msg" is the message event of _errorcallback, which carries the error;
\* "on_change" is the checksum of the frame onMessage was given.)
Reported == {"errorcallback", "successcallback", "success", "error", "throw", "msg",
             "on_change", "login", "didFetch", "needsTwoFactorCode",
             "wrongTwoFactorCode", "otherError", "authorizationRequired",
             "pollForSessionGUID", "label", "twoFactor"}
Ran(op, calls) == called' = SelectSeq(calls, LAMBDA c : c[1] \in Reported)

\* JavaScript `cb && cb(...)`
Maybe(cb, call) == IF cb THEN << call >> ELSE << >>

(* ------------------------------ getWallet ------------------------------ *)
\* data = {method: 'wallet.aes.json', format: 'json'}, plus the stored checksum
\* when there is one; cb: whether the caller gave success/error callbacks
getWalletRequest(cksum, cb) == [checksum |-> cksum, cb |-> cb]

\* API.securePostCallbacks('wallet', data, ...) of getWallet, sent with the
\* checksum cksum that is stored at the time of the call
getWalletSend(cksum, cb) ==
  /\ BagCardinality(fetches) < MaxFetches
  /\ fetches' = fetches (+) SetToBag({getWalletRequest(cksum, cb)})

\* what _errorcallback(e) calls, in order
errorcallbackCalls(cb, e) ==
  << <<"event", "on_backup_wallet_error">>, <<"msg", e>>,
     <<"request", "wallet.aes.json">> >> \o Maybe(cb, <<"errorcallback", e>>)

(* ------------------------------ syncWallet ----------------------------- *)
\* the sharedKey test of syncWallet
sharedKeyIsSet == wallet.sharedKeyLen # 0 /\ wallet.sharedKeyLen = SharedKeyLength

\* isEncryptionConsistent === false: panic() asks the browser to replace the
\* page and throws 'Save disabled.'; nothing else has happened.  (The session
\* is kept running after it: a superset of what a browser allows.)
syncWallet_panic(cb) ==
  /\ wallet.isEncryptionConsistent = FALSE
  /\ Ran("syncWallet", << <<"window.location.replace", "/">>, <<"throw", "Save disabled.">> >>)
  /\ UNCHANGED << wallet, password, isInitialized, encryptedWalletData, payloadChecksum,
                  isSynchronizedWithServer, isLogoutDisabled, last_on_change,
                  push, fetches, remote, loggingOut, halted >>

\* a faulty variant: the sharedKey is tested after disableLogout()
syncWallet_noSharedKey_late(cb) ==
  /\ wallet.isEncryptionConsistent
  /\ ~sharedKeyIsSet
  /\ isLogoutDisabled' = TRUE
  /\ Ran("syncWallet", << <<"throw", "Cannot backup wallet now. Shared key is not set">> >>)
  /\ UNCHANGED << wallet, password, isInitialized, encryptedWalletData, payloadChecksum,
                  isSynchronizedWithServer, last_on_change,
                  push, fetches, remote, loggingOut, halted >>

\* throw 'Cannot backup wallet now. Shared key is not set'
syncWallet_noSharedKey(cb) ==
  /\ wallet.isEncryptionConsistent
  /\ ~sharedKeyIsSet
  /\ Ran("syncWallet", << <<"throw", "Cannot backup wallet now. Shared key is not set">> >>)
  /\ UNCHANGED << wallet, password, isInitialized, encryptedWalletData, payloadChecksum,
                  isSynchronizedWithServer, isLogoutDisabled, last_on_change,
                  push, fetches, remote, loggingOut, halted >>

\* a faulty variant: the outer catch forgets enableLogout()
syncWallet_encryptFail_noEnable(cb) ==
  /\ wallet.isEncryptionConsistent
  /\ sharedKeyIsSet
  /\ \E crypted \in {EmptyCiphertext, Garbled} :
       LET e == IF Length(crypted) = 0 THEN "Error encrypting the JSON output"
                ELSE "Decryption failed"
       IN  /\ ~CanDecrypt(crypted, password) \/ Length(crypted) = 0
           /\ getWalletSend(payloadChecksum, FALSE)
           /\ Ran("syncWallet", errorcallbackCalls(cb, e))
  /\ isLogoutDisabled' = TRUE
  /\ UNCHANGED << wallet, password, isInitialized, encryptedWalletData, payloadChecksum,
                  isSynchronizedWithServer, last_on_change, push, remote,
                  loggingOut, halted >>

\* a faulty variant: the ciphertext is stored before it is checked
syncWallet_encryptFail_storesFirst(cb) ==
  /\ wallet.isEncryptionConsistent
  /\ sharedKeyIsSet
  /\ \E crypted \in {EmptyCiphertext, Garbled} :
       LET e == IF Length(crypted) = 0 THEN "Error encrypting the JSON output"
                ELSE "Decryption failed"
       IN  /\ ~CanDecrypt(crypted, password) \/ Length(crypted) = 0
           /\ encryptedWalletData' = crypted
           /\ payloadChecksum' = generatePayloadChecksum(crypted)
           /\ getWalletSend(generatePayloadChecksum(crypted), FALSE)
           /\ Ran("syncWallet", errorcallbackCalls(cb, e))
  /\ isLogoutDisabled' = FALSE
  /\ UNCHANGED << wallet, password, isInitialized,
                  isSynchronizedWithServer, last_on_change, push, remote,
                  loggingOut, halted >>

\* encryptWallet returns an empty ciphertext, or one its own decryptWallet
\* rejects: the throw reaches the outer catch, which calls _errorcallback(e)
\* and then enableLogout()
syncWallet_encryptFail(cb) ==
  /\ wallet.isEncryptionConsistent
  /\ sharedKeyIsSet
  /\ \E crypted \in {EmptyCiphertext, Garbled} :
       LET e == IF Length(crypted) = 0 THEN "Error encrypting the JSON output"
                ELSE "Decryption failed"
       IN  /\ ~CanDecrypt(crypted, password) \/ Length(crypted) = 0
           /\ getWalletSend(payloadChecksum, FALSE)
           /\ Ran("syncWallet", errorcallbackCalls(cb, e))
  /\ isLogoutDisabled' = FALSE
  /\ UNCHANGED << wallet, password, isInitialized, encryptedWalletData, payloadChecksum,
                  isSynchronizedWithServer, last_on_change, push, remote,
                  loggingOut, halted >>

\* a faulty variant: the payload is made from the stored ciphertext, not from
\* the record in memory
serialize_stored == Decrypt(encryptedWalletData, password)

\* JSON.stringify(MyWallet.wallet): the record as it is when syncWallet runs
serialize == wallet.rec

\* the self-check passed and the ciphertext was stored, then building or
\* posting the request throws: the inner catch calls _errorcallback(e) and
\* then enableLogout()
syncWallet_buildFail(cb) ==
  /\ wallet.isEncryptionConsistent
  /\ sharedKeyIsSet
  /\ LET crypted == Encrypt(serialize, password)
     IN  /\ Length(crypted) # 0 /\ CanDecrypt(crypted, password)
         /\ encryptedWalletData' = crypted
         /\ payloadChecksum' = generatePayloadChecksum(crypted)
         /\ getWalletSend(generatePayloadChecksum(crypted), FALSE)
         /\ Ran("syncWallet", << <<"event", "on_backup_wallet_start">> >>
                               \o errorcallbackCalls(cb, "exception"))
  /\ isLogoutDisabled' = FALSE
  /\ UNCHANGED << wallet, password, isInitialized, isSynchronizedWithServer,
                  last_on_change, push, remote, loggingOut, halted >>

\* the normal run: disableLogout, serialize and encrypt the record as it is
\* now, self-check, store the ciphertext, post method 'update'
syncWallet_upload(cb) ==
  /\ wallet.isEncryptionConsistent
  /\ sharedKeyIsSet
  /\ LET crypted == Encrypt(serialize, password)
     IN  /\ Length(crypted) # 0 /\ CanDecrypt(crypted, password)
         /\ encryptedWalletData' = crypted
         /\ payloadChecksum' = generatePayloadChecksum(crypted)
         /\ push' = [phase |-> "uploading", payload |-> crypted, cb |-> cb]
  /\ isLogoutDisabled' = TRUE
  /\ Ran("syncWallet", << <<"event", "on_backup_wallet_start">>, <<"request", "update">> >>)
  /\ UNCHANGED << wallet, password, isInitialized, isSynchronizedWithServer,
                  last_on_change, fetches, remote, loggingOut, halted >>

\* a faulty variant: logout is enabled as soon as the upload is acknowledged
syncWallet_uploaded_enables ==
  /\ ~halted
  /\ push.phase = "uploading"
  /\ remote' = push.payload
  /\ push' = [push EXCEPT !.phase = "verifying"]
  /\ isLogoutDisabled' = FALSE
  /\ Ran("update.success", << <<"request", "checksum">> >>)
  /\ UNCHANGED << wallet, password, isInitialized, encryptedWalletData, payloadChecksum,
                  isSynchronizedWithServer, last_on_change, timer,
                  syncArgs, burst, fetches, loggingOut, halted >>
  /\ UNCHANGED newVars

\* the store acknowledged the upload: the success callback of
\* securePostCallbacks starts WalletNetwork.checkWalletChecksum(new_checksum)
syncWallet_uploaded ==
  /\ ~halted
  /\ push.phase = "uploading"
  /\ remote' = push.payload
  /\ push' = [push EXCEPT !.phase = "verifying"]
  /\ Ran("update.success", << <<"request", "checksum">> >>)
  /\ UNCHANGED << wallet, password, isInitialized, encryptedWalletData, payloadChecksum,
                  isSynchronizedWithServer, isLogoutDisabled, last_on_change, timer,
                  syncArgs, burst, fetches, loggingOut, halted >>
  /\ UNCHANGED newVars

\* a faulty variant: _errorcallback tries to save again
syncWallet_uploadError_retries ==
  /\ ~halted
  /\ push.phase = "uploading"
  /\ \E written \in BOOLEAN : remote' = IF written THEN push.payload ELSE remote
  /\ isLogoutDisabled' = FALSE
  /\ getWalletSend(payloadChecksum, FALSE)
  /\ push' = push
  /\ Ran("update.error", errorcallbackCalls(push.cb, "e"))
  /\ UNCHANGED << wallet, password, isInitialized, encryptedWalletData, payloadChecksum,
                  isSynchronizedWithServer, last_on_change, timer, syncArgs, burst,
                  loggingOut, halted >>
  /\ UNCHANGED newVars

\* the upload failed (transport or application error; the store may or may
\* not have written the payload): enableLogout(), then _errorcallback(e)
syncWallet_uploadError ==
  /\ ~halted
  /\ push.phase = "uploading"
  /\ \E written \in BOOLEAN : remote' = IF written THEN push.payload ELSE remote
  /\ isLogoutDisabled' = FALSE
  /\ getWalletSend(payloadChecksum, FALSE)
  /\ push' = IdlePush
  /\ Ran("update.error", errorcallbackCalls(push.cb, "e"))
  /\ UNCHANGED << wallet, password, isInitialized, encryptedWalletData, payloadChecksum,
                  isSynchronizedWithServer, last_on_change, timer, syncArgs, burst,
                  loggingOut, halted >>
  /\ UNCHANGED newVars

\* checkWalletChecksum confirmed new_checksum
syncWallet_verified ==
  /\ ~halted
  /\ push.phase = "verifying"
  /\ generatePayloadChecksum(remote) = generatePayloadChecksum(push.payload)
  /\ isSynchronizedWithServer' = TRUE
  /\ isLogoutDisabled' = FALSE
  /\ push' = IdlePush
  /\ Ran("checksum.success", << <<"event", "on_backup_wallet_success">> >>
                              \o Maybe(push.cb, <<"successcallback", "">>))
  /\ UNCHANGED << wallet, password, isInitialized, encryptedWalletData, payloadChecksum,
                  last_on_change, timer, syncArgs, burst, fetches, remote,
                  loggingOut, halted >>
  /\ UNCHANGED newVars

\* checkWalletChecksum found another checksum at the store (or its request
\* failed): _errorcallback('Checksum Did Not Match Expected Value'), then
\* enableLogout()
syncWallet_checksumMismatch ==
  /\ ~halted
  /\ push.phase = "verifying"
  /\ \E transportError \in BOOLEAN :
       transportError \/ generatePayloadChecksum(remote) # generatePayloadChecksum(push.payload)
  /\ getWalletSend(payloadChecksum, FALSE)
  /\ isLogoutDisabled' = FALSE
  /\ push' = IdlePush
  /\ Ran("checksum.error", errorcallbackCalls(push.cb, "Checksum Did Not Match Expected Value"))
  /\ UNCHANGED << wallet, password, isInitialized, encryptedWalletData, payloadChecksum,
                  isSynchronizedWithServer, last_on_change, timer, syncArgs, burst,
                  remote, loggingOut, halted >>
  /\ UNCHANGED newVars

(* ------------------------------ asyncOnce ------------------------------ *)
\* a faulty variant: a plain debounce, which does not wait for the push in flight
asyncOnceReady_unguarded == timer # NoTimer /\ timer >= Interval

\* the scheduled call is due: the quiescent interval has elapsed since the
\* last trigger and no push is executing
asyncOnceReady == timer # NoTimer /\ timer >= Interval /\ push.phase = "idle"

\* the timer of asyncOnce expires: the timer and the stored arguments are cleared
asyncOnceFire ==
  /\ ~halted
  /\ asyncOnceReady
  /\ timer' = NoTimer
  /\ syncArgs' = FALSE
  /\ burst' = 0
  /\ UNCHANGED newVars

\* ... and syncWallet runs with the stored arguments, along one of its paths
TimerFire_panic == asyncOnceFire /\ syncWallet_panic(syncArgs)
TimerFire_noSharedKey == asyncOnceFire /\ syncWallet_noSharedKey(syncArgs)
TimerFire_encryptFail == asyncOnceFire /\ syncWallet_encryptFail(syncArgs)
TimerFire_buildFail == asyncOnceFire /\ syncWallet_buildFail(syncArgs)
TimerFire_upload == asyncOnceFire /\ syncWallet_upload(syncArgs)

\* MyWallet.syncWallet(successcallback, errorcallback), called right after the
\* in-memory record was changed to r: the `before` callback clears
\* isSynchronizedWithServer, and the timer is restarted
asyncOnceCall(r, cb) ==
  /\ ~halted
  /\ burst < MaxBurst
  /\ wallet' = [wallet EXCEPT !.rec = r]
  /\ isSynchronizedWithServer' = FALSE
  /\ timer' = 0
  /\ syncArgs' = cb
  /\ burst' = burst + 1
  /\ Ran("MyWallet.syncWallet", << <<"log", "SAVE CALLED...">> >>)
  /\ UNCHANGED << password, isInitialized, encryptedWalletData, payloadChecksum,
                  isLogoutDisabled, last_on_change, push, fetches, remote,
                  loggingOut, halted >>
  /\ UNCHANGED << loginVars, socket, pollVars >>

\* a call of MyWallet.syncWallet by the application
MyWallet_syncWallet(r, cb) == asyncOnceCall(r, cb) /\ UNCHANGED address

\* time passes while the timer of asyncOnce runs
Tick ==
  /\ ~halted
  /\ timer # NoTimer
  /\ timer < Interval
  /\ timer' = timer + TickStep
  /\ UNCHANGED << wallet, password, isInitialized, encryptedWalletData, payloadChecksum,
                  isSynchronizedWithServer, isLogoutDisabled, last_on_change,
                  syncArgs, burst, push, fetches, remote, loggingOut, halted, called >>
  /\ UNCHANGED newVars

(* ------------------------------- logout -------------------------------- *)
\* a faulty variant: the force argument is ignored
logoutSends_unforced(force) == ~isLogoutDisabled

\* MyWallet.logout(force) sends GET wallet/logout unless it is not forced and
\* logout is disabled
logoutSends(force) == force \/ ~isLogoutDisabled

logoutCalls(force) ==
  IF logoutSends(force)
  THEN << <<"event", "logging_out">>, <<"request", "wallet/logout">> >>
  ELSE << >>

\* a call of MyWallet.logout(force) by the application
MyWallet_logout(force) ==
  /\ ~halted
  /\ loggingOut' = (loggingOut \/ logoutSends(force))
  /\ Ran("MyWallet.logout", logoutCalls(force))
  /\ UNCHANGED << wallet, password, isInitialized, encryptedWalletData, payloadChecksum,
                  isSynchronizedWithServer, isLogoutDisabled, last_on_change, timer,
                  syncArgs, burst, push, fetches, remote, halted >>
  /\ UNCHANGED newVars

\* the logout request settles (then or catch): window.location.reload() ends
\* the session; every variable of the page is gone (and the store is no
\* longer observed)
logout_reload ==
  /\ ~halted
  /\ loggingOut
  /\ halted' = TRUE
  /\ loggingOut' = FALSE
  /\ isInitialized' = FALSE
  /\ isSynchronizedWithServer' = FALSE
  /\ isLogoutDisabled' = FALSE
  /\ last_on_change' = NoChecksum
  /\ timer' = NoTimer
  /\ syncArgs' = FALSE
  /\ burst' = 0
  /\ push' = IdlePush
  /\ fetches' = EmptyBag
  /\ encryptedWalletData' = EmptyCiphertext
  /\ payloadChecksum' = NoChecksum
  /\ wallet' = NoWallet
  /\ remote' = Encrypt(0, password)
  /\ Ran("logout.reload", << >>)
  /\ guid' = NoGuid
  /\ walletGuid' = NoGuid
  /\ isRestoringWallet' = FALSE
  /\ logins' = EmptyBag
  /\ authorizations' = {}
  /\ socket' = NoSocket
  /\ isPolling' = FALSE
  /\ counter' = 0
  /\ poll' = IdlePoll
  /\ address' = NoAddress
  /\ UNCHANGED << password, server >>

(* ------------------------- getWallet, continued ------------------------ *)
\* a call of MyWallet.getWallet(success, error) by the application
MyWallet_getWallet(cb) ==
  /\ ~halted
  /\ getWalletSend(payloadChecksum, cb)
  /\ Ran("MyWallet.getWallet", << <<"request", "wallet.aes.json">> >>)
  /\ UNCHANGED << wallet, password, isInitialized, encryptedWalletData, payloadChecksum,
                  isSynchronizedWithServer, isLogoutDisabled, last_on_change, timer,
                  syncArgs, burst, push, remote, loggingOut, halted >>
  /\ UNCHANGED newVars

\* the store answers 'Not modified' (the checksum sent is the store's)
getWallet_notModified(f) ==
  /\ ~halted
  /\ BagIn(f, fetches)
  /\ f.checksum = generatePayloadChecksum(remote)
  /\ fetches' = fetches (-) SetToBag({f})
  /\ Ran("getWallet.notModified", Maybe(f.cb, <<"success", "">>))
  /\ UNCHANGED << wallet, password, isInitialized, encryptedWalletData, payloadChecksum,
                  isSynchronizedWithServer, isLogoutDisabled, last_on_change, timer,
                  syncArgs, burst, push, remote, loggingOut, halted >>
  /\ UNCHANGED newVars

\* a faulty variant: the socket is connected on every call
setIsInitialized_always ==
  /\ socket' = [socket EXCEPT !.connects = socket.connects + 1]
  /\ isInitialized' = TRUE

\* setIsInitialized: the first call connects the socket (socketConnect)
setIsInitialized ==
  /\ socket' = IF isInitialized THEN socket
               ELSE [socket EXCEPT !.connects = socket.connects + 1]
  /\ isInitialized' = TRUE

\* the store answers with its payload, which decrypts: it is stored, the
\* in-memory wallet is replaced by the decrypted one, history is refreshed
getWallet_installed(f) ==
  /\ ~halted
  /\ BagIn(f, fetches)
  /\ f.checksum # generatePayloadChecksum(remote)
  /\ CanDecrypt(remote, password)
  /\ fetches' = fetches (-) SetToBag({f})
  /\ encryptedWalletData' = remote
  /\ payloadChecksum' = generatePayloadChecksum(remote)
  /\ wallet' = [wallet EXCEPT !.rec = Decrypt(remote, password)]
  /\ setIsInitialized
  /\ Ran("getWallet.installed", << <<"getHistory", "">> >> \o Maybe(f.cb, <<"success", "">>))
  /\ UNCHANGED << password, isSynchronizedWithServer, isLogoutDisabled, last_on_change,
                  timer, syncArgs, burst, push, remote, loggingOut, halted >>
  /\ walletGuid' = PayloadGuid(remote)
  /\ UNCHANGED << guid, isRestoringWallet, logins, authorizations, server, pollVars, address >>

\* the store answers with its payload, which does not decrypt: it is stored,
\* then MyWallet.logout(true) and the error callback if given
getWallet_decryptFailed(f) ==
  /\ ~halted
  /\ BagIn(f, fetches)
  /\ f.checksum # generatePayloadChecksum(remote)
  /\ ~CanDecrypt(remote, password)
  /\ fetches' = fetches (-) SetToBag({f})
  /\ encryptedWalletData' = remote
  /\ payloadChecksum' = generatePayloadChecksum(remote)
  /\ loggingOut' = (loggingOut \/ logoutSends(TRUE))
  /\ Ran("getWallet.decryptFailed", logoutCalls(TRUE) \o Maybe(f.cb, <<"error", "">>))
  /\ UNCHANGED << wallet, password, isInitialized, isSynchronizedWithServer,
                  isLogoutDisabled, last_on_change, timer, syncArgs, burst, push,
                  remote, halted >>
  /\ UNCHANGED newVars

\* the request fails: the error callback if given
getWallet_error(f) ==
  /\ ~halted
  /\ BagIn(f, fetches)
  /\ fetches' = fetches (-) SetToBag({f})
  /\ Ran("getWallet.error", Maybe(f.cb, <<"error", "">>))
  /\ UNCHANGED << wallet, password, isInitialized, encryptedWalletData, payloadChecksum,
                  isSynchronizedWithServer, isLogoutDisabled, last_on_change, timer,
                  syncArgs, burst, push, remote, loggingOut, halted >>
  /\ UNCHANGED newVars

(* ------------------------------ onMessage ------------------------------ *)
\* the frames the socket delivers: kind "json" is a frame that parses to an
\* object, "null" one that parses to null, "garbage" one that does not parse
Frames ==
  {[kind |-> "json", op |-> "on_change", checksum |-> c] :
      c \in Checksums \cup {NoChecksum}}
  \cup {[kind |-> "json", op |-> o, checksum |-> NoChecksum] :
      o \in {"utx", "block", "pong", "other"}}
  \cup {[kind |-> k, op |-> "", checksum |-> NoChecksum] : k \in {"null", "garbage"}}

\* a faulty variant: || in place of &&
onChangeFetches_either(new_checksum) ==
  LET old_checksum == generatePayloadChecksum(encryptedWalletData)
  IN  last_on_change # new_checksum \/ old_checksum # new_checksum

\* the test of onMessage on an on_change frame (both comparisons are the loose !=)
onChangeFetches(new_checksum) ==
  LET old_checksum == generatePayloadChecksum(encryptedWalletData)
  IN  last_on_change # new_checksum /\ old_checksum # new_checksum

onMessage(message) ==
  /\ ~halted
  /\ isInitialized
  /\ CASE message.kind = "garbage" ->
            /\ Ran("onMessage", << <<"log", "could not parse">> >>)
            /\ UNCHANGED << wallet, last_on_change, fetches >>
       [] message.kind = "null" ->
            /\ Ran("onMessage", << <<"throw", "TypeError">> >>)
            /\ UNCHANGED << wallet, last_on_change, fetches >>
       [] message.kind = "json" /\ message.op = "on_change" ->
            IF onChangeFetches(message.checksum)
            THEN /\ last_on_change' = message.checksum
                 /\ getWalletSend(payloadChecksum, FALSE)
                 /\ Ran("onMessage", << <<"on_change", message.checksum>>,
                                       <<"request", "wallet.aes.json">> >>)
                 /\ UNCHANGED wallet
            ELSE /\ Ran("onMessage", << <<"on_change", message.checksum>> >>)
                 /\ UNCHANGED << wallet, last_on_change, fetches >>
       [] message.kind = "json" /\ message.op = "utx" ->
            /\ Ran("onMessage", << <<"event", "on_tx_received">>, <<"getHistory", "on_tx">> >>)
            /\ UNCHANGED << wallet, last_on_change, fetches >>
       [] message.kind = "json" /\ message.op = "block" ->
            /\ Ran("onMessage", << <<"getHistory", "on_block">>, <<"latestBlock", "x">> >>)
            /\ UNCHANGED << wallet, last_on_change, fetches >>
       [] message.kind = "json" /\ message.op = "pong" ->
            /\ Ran("onMessage", << <<"clearTimeout", "pingTimeoutPID">> >>)
            /\ UNCHANGED << wallet, last_on_change, fetches >>
       [] OTHER ->
            /\ Ran("onMessage", << >>)
            /\ UNCHANGED << wallet, last_on_change, fetches >>
  /\ UNCHANGED << password, isInitialized, encryptedWalletData, payloadChecksum,
                  isSynchronizedWithServer, isLogoutDisabled, timer, syncArgs, burst,
                  push, remote, loggingOut, halted >>
  /\ UNCHANGED newVars

(* -------------------------------- login -------------------------------- *)
\* the passwords a user types: the wallet's and a wrong one
LoginPasswords == {"pw", "bad"}
\* the two-factor codes a user types: none, the right one, a wrong one and
\* one of 256 characters (credentials.twoFactor is {type: 5, code: ...})
Codes == {"", "abc123", "zzz999", "long"}
CodeLength(code) ==
  CASE code = "" -> 0
    [] code = "long" -> MaxCodeLength + 1
    [] OTHER -> 6
toUpperCase(code) ==
  CASE code = "abc123" -> "ABC123"
    [] code = "zzz999" -> "ZZZ999"
    [] code = "long" -> "LONG"
    [] OTHER -> code
\* the code the server expects
RightCode == "ABC123"
\* "plain": the wallet has no second factor and the device is authorized;
\* "twoFactor": the wallet asks for a code; "newDevice": the device is not
\* authorized yet; "faulty": the server answers with errors
ServerModes == {"plain", "twoFactor", "newDevice", "faulty"}

\* kind "json": GET wallet/<guid> of tryToFetchWalletJSON;
\* kind "2fa": POST get-wallet of tryToFetchWalletWith2FA, with the code sent
loginRequest(kind, pw, key) == [kind |-> kind, guid |-> "G", pw |-> pw, key |-> key]
LoginRequests ==
  {loginRequest("json", pw, "") : pw \in LoginPasswords}
  \cup {loginRequest("2fa", pw, toUpperCase(c)) : pw \in LoginPasswords, c \in Codes}

\* API.request(...) of login
loginSend(req) ==
  /\ BagCardinality(logins) < MaxLogins
  /\ logins' = logins (+) SetToBag({req})

\* a faulty variant: the restoring flag is tested the wrong way round
initializeWalletGuard_inverted == isInitialized \/ ~isRestoringWallet

\* if (isInitialized || WalletStore.isRestoringWallet()) return
initializeWalletGuard == isInitialized \/ isRestoringWallet

\* MyWallet.initializeWallet(pw, callbacks.success, callbacks.otherError, ...)
\* with `data` the stored ciphertext and `cksum` the stored checksum at the
\* time of the call, after the calls `pre` of the handler that calls it.
\* Decryption is synchronous: setRestoringWallet(true) is undone by the
\* success or the error callback of decryptAndInitializeWallet within the call.
initializeWallet(pw, data, cksum, pre) ==
  IF initializeWalletGuard
  THEN /\ Ran("initializeWallet", pre)
       /\ UNCHANGED << password, isRestoringWallet, wallet, walletGuid, isInitialized,
                       socket, fetches >>
  ELSE /\ password' = pw
       /\ isRestoringWallet' = FALSE
       /\ IF Length(data) # 0 /\ CanDecrypt(data, pw)
          THEN /\ wallet' = [rec |-> Decrypt(data, pw), sharedKeyLen |-> SharedKeyLength,
                             isEncryptionConsistent |-> TRUE]
               /\ walletGuid' = PayloadGuid(data)
               /\ setIsInitialized
               /\ getWalletSend(cksum, FALSE)
               /\ Ran("initializeWallet",
                      pre \o << <<"request", "wallet.aes.json">>, <<"success", "login">> >>)
          ELSE /\ Ran("initializeWallet",
                      pre \o << <<"msg", "restore">>, <<"event", "error_restoring_wallet">>,
                                <<"otherError", "decrypt">> >>)
               /\ UNCHANGED << wallet, walletGuid, isInitialized, socket, fetches >>

\* what a call of login leaves alone whatever its path
loginFrame ==
  UNCHANGED << isSynchronizedWithServer, isLogoutDisabled, last_on_change, timer,
               syncArgs, burst, push, remote, loggingOut, halted, server, pollVars,
               address >>

\* what a call of login that sends at most a request leaves alone
loginCallFrame ==
  /\ loginFrame
  /\ UNCHANGED << wallet, password, isInitialized, encryptedWalletData, payloadChecksum,
                  fetches, guid, walletGuid, isRestoringWallet, authorizations, socket >>

\* MyWallet.login(G, pw, {twoFactor: null}, callbacks): tryToFetchWalletJSON
login_fetch(pw) ==
  /\ ~halted
  /\ loginSend(loginRequest("json", pw, ""))
  /\ Ran("MyWallet.login", << <<"login", "G">>, <<"request", "wallet/G">> >>)
  /\ loginCallFrame

\* MyWallet.login(G, pw, {twoFactor: {type: 5, code: code}}, callbacks) when the
\* wallet of this guid was fetched before: the argument `inputedPassword` of
\* the call of initializeWallet is not defined, so the call throws a
\* ReferenceError before initializeWallet is entered
login_refetchSkipped(pw, code) ==
  /\ ~halted
  /\ guid = "G" /\ Length(encryptedWalletData) # 0
  /\ Ran("MyWallet.login", << <<"login", "G">>, <<"twoFactor", code>>,
                              <<"throw", "ReferenceError">> >>)
  /\ loginCallFrame
  /\ UNCHANGED logins

\* a faulty variant: the code is tested after the request is sent
login_badCode_late(pw, code) ==
  /\ ~halted
  /\ ~(guid = "G" /\ Length(encryptedWalletData) # 0)
  /\ CodeLength(code) = 0 \/ CodeLength(code) > MaxCodeLength
  /\ loginSend(loginRequest("2fa", pw, toUpperCase(code)))
  /\ Ran("MyWallet.login", << <<"login", "G">>, <<"twoFactor", code>>,
                              <<"request", "get-wallet">>, <<"throw", "ReferenceError">> >>)
  /\ loginCallFrame

\* tryToFetchWalletWith2FA with an empty or over-long code: `otherError` is
\* not defined in login (the callback is callbacks.otherError), so the call
\* throws a ReferenceError; no request is sent
login_badCode(pw, code) ==
  /\ ~halted
  /\ ~(guid = "G" /\ Length(encryptedWalletData) # 0)
  /\ CodeLength(code) = 0 \/ CodeLength(code) > MaxCodeLength
  /\ Ran("MyWallet.login", << <<"login", "G">>, <<"twoFactor", code>>,
                              <<"throw", "ReferenceError">> >>)
  /\ loginCallFrame
  /\ UNCHANGED logins

\* tryToFetchWalletWith2FA: POST get-wallet with the upper-cased code
login_submitCode(pw, code) ==
  /\ ~halted
  /\ ~(guid = "G" /\ Length(encryptedWalletData) # 0)
  /\ ~(CodeLength(code) = 0 \/ CodeLength(code) > MaxCodeLength)
  /\ loginSend(loginRequest("2fa", pw, toUpperCase(code)))
  /\ Ran("MyWallet.login", << <<"login", "G">>, <<"twoFactor", code>>,
                              <<"request", "get-wallet">> >>)
  /\ loginCallFrame

\* GET wallet/G answered with guid and payload: didFetch, setGuid,
\* didFetchWalletJSON stores the payload and calls initializeWallet
login_payload(f) ==
  /\ ~halted
  /\ BagIn(f, logins) /\ f.kind = "json"
  /\ server = "plain"
  /\ logins' = logins (-) SetToBag({f})
  /\ guid' = "G"
  /\ encryptedWalletData' = remote
  /\ payloadChecksum' = generatePayloadChecksum(remote)
  /\ initializeWallet(f.pw, remote, generatePayloadChecksum(remote), << <<"didFetch", "">> >>)
  /\ loginFrame
  /\ UNCHANGED authorizations

\* GET wallet/G answered with the guid and no payload: needsTwoFactorCode
login_needsTwoFactor(f) ==
  /\ ~halted
  /\ BagIn(f, logins) /\ f.kind = "json"
  /\ server = "twoFactor"
  /\ logins' = logins (-) SetToBag({f})
  /\ guid' = "G"
  /\ Ran("login.success", << <<"didFetch", "">>, <<"needsTwoFactorCode", "">> >>)
  /\ loginFrame
  /\ UNCHANGED << wallet, password, isInitialized, encryptedWalletData, payloadChecksum,
                  fetches, walletGuid, isRestoringWallet, authorizations, socket >>

\* GET wallet/G answered without a guid: after the msg event, `otherError` is
\* not defined, the ReferenceError rejects the promise and reaches the error
\* handler, which finds neither initial_error nor authorization_required in it
login_nullGuid(f) ==
  /\ ~halted
  /\ BagIn(f, logins) /\ f.kind = "json"
  /\ server = "faulty"
  /\ logins' = logins (-) SetToBag({f})
  /\ Ran("login.success", << <<"didFetch", "">>, <<"msg", "Server returned null guid.">>,
                             <<"event", "did_fail_set_guid">> >>)
  /\ loginFrame
  /\ UNCHANGED << wallet, password, isInitialized, encryptedWalletData, payloadChecksum,
                  fetches, guid, walletGuid, isRestoringWallet, authorizations, socket >>

\* GET wallet/G fails with initial_error and without authorization_required
login_serverError(f) ==
  /\ ~halted
  /\ BagIn(f, logins) /\ f.kind = "json"
  /\ server = "faulty"
  /\ logins' = logins (-) SetToBag({f})
  /\ Ran("login.error", << <<"otherError", "initial_error">> >>)
  /\ loginFrame
  /\ UNCHANGED << wallet, password, isInitialized, encryptedWalletData, payloadChecksum,
                  fetches, guid, walletGuid, isRestoringWallet, authorizations, socket >>

\* GET wallet/G fails with authorization_required: the authorizationRequired
\* callback is handed the function that polls and then fetches again
login_authorizationRequired(f) ==
  /\ ~halted
  /\ BagIn(f, logins) /\ f.kind = "json"
  /\ server = "newDevice"
  /\ logins' = logins (-) SetToBag({f})
  /\ authorizations' = authorizations \cup {f.pw}
  /\ Ran("login.error", << <<"event", "did_fail_set_guid">>, <<"authorizationRequired", "">> >>)
  /\ loginFrame
  /\ UNCHANGED << wallet, password, isInitialized, encryptedWalletData, payloadChecksum,
                  fetches, guid, walletGuid, isRestoringWallet, socket >>

\* POST get-wallet answered with the payload: it is stored and
\* didFetchWalletJSON calls initializeWallet
login_codeAccepted(f) ==
  /\ ~halted
  /\ BagIn(f, logins) /\ f.kind = "2fa"
  /\ server = "plain" \/ (server = "twoFactor" /\ f.key = RightCode)
  /\ logins' = logins (-) SetToBag({f})
  /\ encryptedWalletData' = remote
  /\ payloadChecksum' = generatePayloadChecksum(remote)
  /\ initializeWallet(f.pw, remote, generatePayloadChecksum(remote), << >>)
  /\ loginFrame
  /\ UNCHANGED << guid, authorizations >>

\* POST get-wallet answered with empty data: `otherError` is not defined, the
\* ReferenceError rejects the promise and reaches the error handler of the
\* request, which reports a wrong code
login_emptyData(f) ==
  /\ ~halted
  /\ BagIn(f, logins) /\ f.kind = "2fa"
  /\ server = "faulty"
  /\ logins' = logins (-) SetToBag({f})
  /\ isRestoringWallet' = FALSE
  /\ Ran("login.success", << <<"wrongTwoFactorCode", "ReferenceError">> >>)
  /\ loginFrame
  /\ UNCHANGED << wallet, password, isInitialized, encryptedWalletData, payloadChecksum,
                  fetches, guid, walletGuid, authorizations, socket >>

\* a faulty variant: the error handler forgets the stored guid
login_codeRejected_forgets(f) ==
  /\ ~halted
  /\ BagIn(f, logins) /\ f.kind = "2fa"
  /\ server = "newDevice" \/ (server = "twoFactor" /\ f.key # RightCode)
  /\ logins' = logins (-) SetToBag({f})
  /\ isRestoringWallet' = FALSE
  /\ guid' = NoGuid
  /\ Ran("login.error", << <<"wrongTwoFactorCode", "response">> >>)
  /\ loginFrame
  /\ UNCHANGED << wallet, password, isInitialized, encryptedWalletData, payloadChecksum,
                  fetches, walletGuid, authorizations, socket >>

\* POST get-wallet rejected: setRestoringWallet(false), wrongTwoFactorCode
login_codeRejected(f) ==
  /\ ~halted
  /\ BagIn(f, logins) /\ f.kind = "2fa"
  /\ server = "newDevice" \/ (server = "twoFactor" /\ f.key # RightCode)
  /\ logins' = logins (-) SetToBag({f})
  /\ isRestoringWallet' = FALSE
  /\ Ran("login.error", << <<"wrongTwoFactorCode", "response">> >>)
  /\ loginFrame
  /\ UNCHANGED << wallet, password, isInitialized, encryptedWalletData, payloadChecksum,
                  fetches, guid, walletGuid, authorizations, socket >>

\* onOpen: the socket opened by socketConnect announces the guid of the wallet
onOpen ==
  /\ ~halted
  /\ socket.connects > 0 /\ ~socket.open
  /\ socket' = [socket EXCEPT !.open = TRUE, !.subscribed = walletGuid]
  /\ Ran("onOpen", << <<"event", "ws_on_open">>, <<"send", "subscribe">> >>)
  /\ UNCHANGED << wallet, password, isInitialized, encryptedWalletData, payloadChecksum,
                  isSynchronizedWithServer, isLogoutDisabled, last_on_change, timer,
                  syncArgs, burst, push, fetches, remote, loggingOut, halted,
                  loginVars, pollVars, address >>

(* ------------------------- pollForSessionGUID -------------------------- *)
\* the successCallback of a poll: "" is a callback of the application, a
\* password is the function of login that fetches the wallet again
NoRetry == ""

\* what the poll leaves alone
pollFrame ==
  UNCHANGED << wallet, password, isInitialized, encryptedWalletData, payloadChecksum,
               isSynchronizedWithServer, isLogoutDisabled, last_on_change, timer,
               syncArgs, burst, push, fetches, remote, loggingOut, halted,
               guid, walletGuid, isRestoringWallet, authorizations, server, socket,
               address >>

\* a faulty variant: the guard is not tested
pollGuard_none == FALSE

\* if (WalletStore.isPolling()) return
pollGuard == isPolling

\* API.request('GET', 'wallet/poll-for-session-guid', ...)
pollSend == poll.requests + poll.timers < MaxPolls

\* the handler of an answer has run: the request is no longer outstanding;
\* a poll with nothing outstanding has ended
pollAnswered ==
  IF poll.requests + poll.timers = 1 THEN IdlePoll
  ELSE [poll EXCEPT !.requests = poll.requests - 1]

\* MyWallet.pollForSessionGUID(successCallback): nothing if a poll is active,
\* else setIsPolling(true) and the first request
pollForSessionGUID(retry) ==
  /\ ~halted
  /\ IF pollGuard
     THEN /\ Ran("pollForSessionGUID", << <<"pollForSessionGUID", "return">> >>)
          /\ UNCHANGED pollVars
     ELSE /\ pollSend
          /\ isPolling' = TRUE
          /\ poll' = [poll EXCEPT !.requests = poll.requests + 1, !.sent = 1,
                                  !.retry = retry]
          /\ counter' = counter
          /\ Ran("pollForSessionGUID", << <<"pollForSessionGUID", "request">>,
                                          <<"request", "poll-for-session-guid">> >>)
  /\ pollFrame
  /\ UNCHANGED logins

\* a call of MyWallet.pollForSessionGUID by the application
MyWallet_pollForSessionGUID == pollForSessionGUID(NoRetry)

\* the application calls the function that authorizationRequired handed it
authorizationRequired_proceed(pw) ==
  /\ pw \in authorizations
  /\ pollForSessionGUID(pw)

\* the answer carries a guid: setIsPolling(false), the msg event and
\* successCallback(), which for a login is tryToFetchWalletJSON
poll_authorized ==
  /\ ~halted
  /\ poll.requests > 0
  /\ server # "newDevice"
  /\ isPolling' = FALSE
  /\ poll' = pollAnswered
  /\ counter' = counter
  /\ IF poll.retry = NoRetry
     THEN /\ Ran("poll.success", << <<"msg", "Authorization Successful">>,
                                    <<"successcallback", "poll">> >>)
          /\ UNCHANGED logins
     ELSE /\ loginSend(loginRequest("json", poll.retry, ""))
          /\ Ran("poll.success", << <<"msg", "Authorization Successful">>,
                                    <<"request", "wallet/G">> >>)
  /\ pollFrame

\* WalletStore.getCounter() < 600
pollAgain == counter < PollLimit

\* the answer carries no guid: below the limit the counter is incremented and
\* the next request is scheduled in 2000 ms, else setIsPolling(false)
poll_pending ==
  /\ ~halted
  /\ poll.requests > 0
  /\ server = "newDevice"
  /\ IF pollAgain
     THEN /\ counter' = counter + 1
          /\ poll' = [poll EXCEPT !.requests = poll.requests - 1,
                                  !.timers = poll.timers + 1]
          /\ isPolling' = isPolling
     ELSE /\ isPolling' = FALSE
          /\ poll' = pollAnswered
          /\ counter' = counter
  /\ Ran("poll.success", << >>)
  /\ pollFrame
  /\ UNCHANGED logins

\* the timer of 2000 ms expires: the next request is sent
poll_timer ==
  /\ ~halted
  /\ poll.timers > 0
  /\ poll' = [poll EXCEPT !.timers = poll.timers - 1, !.requests = poll.requests + 1,
                          !.sent = poll.sent + 1]
  /\ Ran("poll.timer", << <<"request", "poll-for-session-guid">> >>)
  /\ pollFrame
  /\ UNCHANGED << isPolling, counter, logins >>

\* the request fails: setIsPolling(false)
poll_error ==
  /\ ~halted
  /\ poll.requests > 0
  /\ isPolling' = FALSE
  /\ poll' = pollAnswered
  /\ Ran("poll.error", << >>)
  /\ pollFrame
  /\ UNCHANGED << counter, logins >>

(* ------------------------------- Address ------------------------------- *)
\* the values a label takes: undefined, null, the empty string, a string the
\* validator accepts and one it refuses
LabelUndefined == "undefined"
LabelNull == "null"
Labels == {LabelUndefined, LabelNull, "", "savings", "<script>"}

\* Helpers.isValidLabel(str)
isValidLabel(str) == str \in {"", "savings"}

\* str == null
isNullish(str) == str \in {LabelUndefined, LabelNull}

\* the keys Address.import is given: an address, an ECPair, a private key in
\* WIF, anything else
KeyKinds == {"address", "ECPair", "WIF", "other"}

\* _priv of a watch-only Address, _temporal_priv when nothing is staged
NoKey == "null"
NoStagedKey == "undefined"
\* the values of _priv: none, a key in base58, a key ciphered with the
\* second password
Keys == {NoKey, "base58", "ciphered"}

\* the cipher handed to encrypt and decrypt: none, one that ciphers, one that
\* deciphers, one that yields no key
Ciphers == {"none", "cipher", "decipher", "fails"}

\* cipher ? cipher(this._priv) : this._priv
applyCipher(cipher, priv) ==
  CASE cipher = "none" -> priv
    [] cipher = "cipher" -> "ciphered"
    [] cipher = "decipher" -> "base58"
    [] OTHER -> NoKey

\* what the Address leaves alone
addressFrame ==
  UNCHANGED << wallet, password, isInitialized, encryptedWalletData, payloadChecksum,
               isSynchronizedWithServer, isLogoutDisabled, last_on_change, timer,
               syncArgs, burst, push, fetches, remote, loggingOut, halted,
               loginVars, socket, pollVars >>

\* new Address(object): the fields of the object are copied
Address(priv, label) ==
  /\ ~halted
  /\ address' = [exists |-> TRUE, label |-> label, priv |-> priv,
                 temporal_priv |-> NoStagedKey]
  /\ Ran("Address", << >>)
  /\ addressFrame

\* Address.import(key, label): a key of no supported format throws, else the
\* Address is built from the key and the label is assigned to it
Address_import(key, label) ==
  /\ ~halted
  /\ IF key = "other"
     THEN /\ Ran("Address.import", << <<"throw", "import format">> >>)
          /\ UNCHANGED address
     ELSE /\ address' = [exists |-> TRUE, label |-> label,
                         priv |-> IF key = "address" THEN NoKey ELSE "base58",
                         temporal_priv |-> NoStagedKey]
          /\ Ran("Address.import", << >>)
  /\ addressFrame

\* Address.new(label): a fresh key is imported
Address_new(label) == Address_import("ECPair", label)

\* a faulty variant: the ciphered key is written over the stored key
Address_encrypt_inPlace(cipher) ==
  /\ ~halted
  /\ address.exists
  /\ IF address.priv = NoKey
     THEN /\ Ran("Address.encrypt", << >>)
          /\ UNCHANGED address
     ELSE IF applyCipher(cipher, address.priv) = NoKey
          THEN /\ Ran("Address.encrypt", << <<"throw", "Error Encoding key">> >>)
               /\ UNCHANGED address
          ELSE /\ address' = [address EXCEPT !.priv = applyCipher(cipher, address.priv)]
               /\ Ran("Address.encrypt", << >>)
  /\ addressFrame

\* address.encrypt(cipher): nothing without a key; the ciphered key is
\* staged, or the call throws when the cipher yields none
Address_encrypt(cipher) ==
  /\ ~halted
  /\ address.exists
  /\ IF address.priv = NoKey
     THEN /\ Ran("Address.encrypt", << >>)
          /\ UNCHANGED address
     ELSE IF applyCipher(cipher, address.priv) = NoKey
          THEN /\ Ran("Address.encrypt", << <<"throw", "Error Encoding key">> >>)
               /\ UNCHANGED address
          ELSE /\ address' = [address EXCEPT
                                !.temporal_priv = applyCipher(cipher, address.priv)]
               /\ Ran("Address.encrypt", << >>)
  /\ addressFrame

\* address.decrypt(cipher): the same with its own error
Address_decrypt(cipher) ==
  /\ ~halted
  /\ address.exists
  /\ IF address.priv = NoKey
     THEN /\ Ran("Address.decrypt", << >>)
          /\ UNCHANGED address
     ELSE IF applyCipher(cipher, address.priv) = NoKey
          THEN /\ Ran("Address.decrypt", << <<"throw", "Error Decoding key">> >>)
               /\ UNCHANGED address
          ELSE /\ address' = [address EXCEPT
                                !.temporal_priv = applyCipher(cipher, address.priv)]
               /\ Ran("Address.decrypt", << >>)
  /\ addressFrame

\* address.persist(): nothing when no key is staged; else the staged key
\* replaces the stored key and the staging field is deleted
Address_persist ==
  /\ ~halted
  /\ address.exists
  /\ IF address.temporal_priv = NoStagedKey
     THEN UNCHANGED address
     ELSE address' = [address EXCEPT !.priv = address.temporal_priv,
                                     !.temporal_priv = NoStagedKey]
  /\ Ran("Address.persist", << >>)
  /\ addressFrame

\* address.label = str with a valid or nullish str: '' is stored as
\* undefined, and MyWallet.syncWallet() is called (the record r is the wallet
\* with the new label)
label_set(str, r) ==
  /\ address.exists
  /\ isValidLabel(str) \/ isNullish(str)
  /\ address' = [address EXCEPT !.label = IF str = "" THEN LabelUndefined ELSE str]
  /\ asyncOnceCall(r, FALSE)

\* address.label = str with any other str: the setter throws
label_rejected(str) ==
  /\ ~halted
  /\ address.exists
  /\ ~(isValidLabel(str) \/ isNullish(str))
  /\ Ran("label", << <<"throw", "label">> >>)
  /\ addressFrame
  /\ UNCHANGED address

(* ----------------------------- environment ----------------------------- *)
\* another device of the user writes the payload c to the remote store
RemoteChange(c) ==
  /\ ~halted
  /\ c # remote
  /\ remote' = c
  /\ UNCHANGED << wallet, password, isInitialized, encryptedWalletData, payloadChecksum,
                  isSynchronizedWithServer, isLogoutDisabled, last_on_change, timer,
                  syncArgs, burst, push, fetches, loggingOut, halted, called >>
  /\ UNCHANGED newVars

\* the user authorizes this device (the link of the e-mail)
DeviceAuthorized ==
  /\ ~halted
  /\ server = "newDevice"
  /\ server' = "plain"
  /\ UNCHANGED << wallet, password, isInitialized, encryptedWalletData, payloadChecksum,
                  isSynchronizedWithServer, isLogoutDisabled, last_on_change, timer,
                  syncArgs, burst, push, fetches, remote, loggingOut, halted, called,
                  guid, walletGuid, isRestoringWallet, logins, authorizations, socket,
                  pollVars, address >>

(* ---------------------------- specification ---------------------------- *)
\* The session as initializeWallet leaves it after the first successful
\* decrypt: the wallet is installed from the fetched payload, the socket is
\* connected (last_on_change = null), and didDecryptWallet has sent its
\* getWallet() request.
Init ==
  /\ password \in Passwords
  /\ remote = Encrypt(0, password)
  /\ encryptedWalletData = remote
  /\ payloadChecksum = generatePayloadChecksum(remote)
  /\ \E k \in KeyLens, c \in BOOLEAN :
       wallet = [rec |-> 0, sharedKeyLen |-> k, isEncryptionConsistent |-> c]
  /\ isInitialized = TRUE
  /\ isSynchronizedWithServer \in BOOLEAN
  /\ isLogoutDisabled = FALSE
  /\ last_on_change = NoChecksum
  /\ timer = NoTimer
  /\ syncArgs = FALSE
  /\ burst = 0
  /\ push = IdlePush
  /\ fetches = SetToBag({getWalletRequest(payloadChecksum, FALSE)})
  /\ loggingOut = FALSE
  /\ halted = FALSE
  /\ called = << <<"success", "">> >>
  /\ guid = "G"
  /\ walletGuid = "G"
  /\ isRestoringWallet = FALSE
  /\ logins = EmptyBag
  /\ authorizations = {}
  /\ server = "plain"
  /\ socket = [connects |-> 1, open |-> TRUE, subscribed |-> "G"]
  /\ isPolling = FALSE
  /\ counter = 0
  /\ poll = IdlePoll
  /\ address = NoAddress

FetchRequests == {getWalletRequest(c, cb) : c \in Checksums \cup {NoChecksum}, cb \in BOOLEAN}

\* The session without the live-update channel.  (onMessage changes only
\* last_on_change and sends the getWallet() request that MyWallet_getWallet
\* sends as well, so no state of the other variables is lost.)
Next ==
  \/ \E r \in Recs, cb \in BOOLEAN : MyWallet_syncWallet(r, cb)
  \/ Tick
  \/ TimerFire_panic
  \/ TimerFire_noSharedKey
  \/ TimerFire_encryptFail
  \/ TimerFire_buildFail
  \/ TimerFire_upload
  \/ syncWallet_uploaded
  \/ syncWallet_uploadError
  \/ syncWallet_verified
  \/ syncWallet_checksumMismatch
  \/ \E cb \in BOOLEAN : MyWallet_getWallet(cb)
  \/ \E f \in FetchRequests : getWallet_notModified(f)
  \/ \E f \in FetchRequests : getWallet_installed(f)
  \/ \E f \in FetchRequests : getWallet_decryptFailed(f)
  \/ \E f \in FetchRequests : getWallet_error(f)
  \/ \E force \in BOOLEAN : MyWallet_logout(force)
  \/ logout_reload
  \/ \E c \in Ciphertexts : RemoteChange(c)

Spec == Init /\ [][Next]_vars

\* The session with the live-update channel, driven by an application that
\* passes no callbacks and changes the record once per scheduled push (the
\* coalescing of several triggers is explored by Next).
NextLive ==
  \/ \E r \in Recs : timer = NoTimer /\ MyWallet_syncWallet(r, FALSE)
  \/ Tick
  \/ TimerFire_panic
  \/ TimerFire_noSharedKey
  \/ TimerFire_encryptFail
  \/ TimerFire_buildFail
  \/ TimerFire_upload
  \/ syncWallet_uploaded
  \/ syncWallet_uploadError
  \/ syncWallet_verified
  \/ syncWallet_checksumMismatch
  \/ MyWallet_getWallet(FALSE)
  \/ \E f \in FetchRequests : getWallet_notModified(f)
  \/ \E f \in FetchRequests : getWallet_installed(f)
  \/ \E f \in FetchRequests : getWallet_decryptFailed(f)
  \/ \E f \in FetchRequests : getWallet_error(f)
  \/ \E force \in BOOLEAN : MyWallet_logout(force)
  \/ logout_reload
  \/ \E m \in Frames : onMessage(m)
  \/ \E c \in Ciphertexts : RemoteChange(c)

SpecLive == Init /\ [][NextLive]_vars

\* A process that has just loaded the module: nothing is stored, no wallet
\* is in memory, the socket is not connected.  The server holds the wallet
\* "G", encrypted under the password "pw".
InitLogin ==
  /\ wallet = NoWallet
  /\ password = ""
  /\ isInitialized = FALSE
  /\ encryptedWalletData = EmptyCiphertext
  /\ payloadChecksum = NoChecksum
  /\ isSynchronizedWithServer = FALSE
  /\ isLogoutDisabled = FALSE
  /\ last_on_change = NoChecksum
  /\ timer = NoTimer
  /\ syncArgs = FALSE
  /\ burst = 0
  /\ push = IdlePush
  /\ fetches = EmptyBag
  /\ remote = Encrypt(0, "pw")
  /\ loggingOut = FALSE
  /\ halted = FALSE
  /\ called = << >>
  /\ guid = NoGuid
  /\ walletGuid = NoGuid
  /\ isRestoringWallet = FALSE
  /\ logins = EmptyBag
  /\ authorizations = {}
  /\ server \in ServerModes
  /\ socket = NoSocket
  /\ isPolling = FALSE
  /\ counter = 0
  /\ poll = IdlePoll
  /\ address = NoAddress

\* The login: the application calls MyWallet.login; the server answers; once
\* the wallet is installed the socket opens and the wallet is fetched again.
\* (What the application does with the function that authorizationRequired
\* hands it is left to NextAuthorize.)
NextLogin ==
  \/ \E pw \in LoginPasswords : login_fetch(pw)
  \/ \E pw \in LoginPasswords, code \in Codes : login_refetchSkipped(pw, code)
  \/ \E pw \in LoginPasswords, code \in Codes : login_badCode(pw, code)
  \/ \E pw \in LoginPasswords, code \in Codes : login_submitCode(pw, code)
  \/ \E f \in LoginRequests : login_payload(f)
  \/ \E f \in LoginRequests : login_needsTwoFactor(f)
  \/ \E f \in LoginRequests : login_nullGuid(f)
  \/ \E f \in LoginRequests : login_serverError(f)
  \/ \E f \in LoginRequests : login_authorizationRequired(f)
  \/ \E f \in LoginRequests : login_codeAccepted(f)
  \/ \E f \in LoginRequests : login_emptyData(f)
  \/ \E f \in LoginRequests : login_codeRejected(f)
  \/ onOpen
  \/ DeviceAuthorized
  \/ \E f \in FetchRequests : getWallet_notModified(f)
  \/ \E f \in FetchRequests : getWallet_installed(f)
  \/ \E f \in FetchRequests : getWallet_decryptFailed(f)
  \/ \E f \in FetchRequests : getWallet_error(f)
  \/ logout_reload
  \/ \E c \in Ciphertexts : RemoteChange(c)

SpecLogin == InitLogin /\ [][NextLogin]_vars

\* The login without a two-factor code against a server that knows this
\* device, with the scheduling a running process has: every request that is
\* outstanding is answered, and a socket that was connected opens.
InitScenario == InitLogin /\ server = "plain"

NextScenario ==
  \/ \E pw \in LoginPasswords : login_fetch(pw)
  \/ \E f \in LoginRequests : login_payload(f)
  \/ onOpen
  \/ \E f \in FetchRequests : getWallet_notModified(f)
  \/ \E f \in FetchRequests : getWallet_installed(f)
  \/ \E f \in FetchRequests : getWallet_decryptFailed(f)
  \/ \E f \in FetchRequests : getWallet_error(f)
  \/ logout_reload
  \/ \E c \in Ciphertexts : RemoteChange(c)

SpecLoginFair ==
  /\ InitScenario
  /\ [][NextScenario]_vars
  /\ \A f \in LoginRequests : WF_vars(login_payload(f))
  /\ WF_vars(onOpen)

\* The device-authorization poll on its own: the application polls, the
\* server answers "not yet" until the user authorizes the device.
InitPoll == InitLogin /\ server \in {"newDevice", "plain"}

NextPoll ==
  \/ MyWallet_pollForSessionGUID
  \/ poll_authorized
  \/ poll_pending
  \/ poll_timer
  \/ poll_error
  \/ DeviceAuthorized

SpecPoll == InitPoll /\ [][NextPoll]_vars

\* The login from a device the server does not know: the application calls
\* the function that authorizationRequired hands it, which polls and then
\* fetches the wallet again.  (The timer of the poll is left to NextPoll.)
InitAuthorize == InitLogin /\ server = "newDevice"

NextAuthorize ==
  \/ \E pw \in LoginPasswords : login_fetch(pw)
  \/ \E f \in LoginRequests : login_authorizationRequired(f)
  \/ \E pw \in LoginPasswords : authorizationRequired_proceed(pw)
  \/ poll_authorized
  \/ poll_pending
  \/ poll_error
  \/ DeviceAuthorized
  \/ \E f \in LoginRequests : login_payload(f)
  \/ onOpen

SpecAuthorize == InitAuthorize /\ [][NextAuthorize]_vars

\* The addresses of a session: the application builds, imports and generates
\* an Address and assigns labels; the write-back that a label triggers runs.
NextAddress ==
  \/ \E priv \in Keys, label \in Labels : Address(priv, label)
  \/ \E key \in KeyKinds, label \in Labels : Address_import(key, label)
  \/ \E label \in Labels : Address_new(label)
  \/ \E cipher \in Ciphers : Address_encrypt(cipher)
  \/ \E cipher \in Ciphers : Address_decrypt(cipher)
  \/ Address_persist
  \/ \E str \in Labels, r \in Recs : label_set(str, r)
  \/ \E str \in Labels : label_rejected(str)
  \/ Tick
  \/ TimerFire_upload
  \/ syncWallet_uploaded
  \/ syncWallet_verified

SpecAddress == Init /\ [][NextAddress]_vars

(* ============================== properties ============================= *)
\* the set of the elements of a sequence
Range(q) == {q[i] : i \in 1 .. Len(q)}

\* a step in which the timer of asyncOnce expires and syncWallet runs
FireStep == timer # NoTimer /\ timer' = NoTimer /\ ~halted'
\* a step in which an `update` request is sent
UploadStarts == push'.phase = "uploading" /\ push.phase # "uploading"
\* a step in which a trigger (MyWallet.syncWallet) is handled
TriggerStep == burst' = burst + 1
PushInFlight == push.phase \in {"uploading", "verifying"}

\* the requests that a step could have sent are all unchanged
NoRequestSent == push' = push /\ fetches' = fetches /\ loggingOut' = loggingOut
StoredUnchanged ==
  encryptedWalletData' = encryptedWalletData /\ payloadChecksum' = payloadChecksum

(* C1: triggers that follow each other within less than 1500 time units are *)
(* served by one run of syncWallet: every trigger restarts the delay, the   *)
(* run starts only when 1500 time units have passed since the last trigger, *)
(* it clears the schedule (so no second run follows without a new trigger), *)
(* an `update` request is sent by such a run only, and the payload sent is  *)
(* the encryption of the record as it is at that moment.                    *)
C1_Coalesced ==
  /\ []((timer = NoTimer) <=> (burst = 0))
  /\ [][ /\ TriggerStep => timer' = 0
         /\ FireStep => timer >= 1500 /\ burst >= 1 /\ burst' = 0
         /\ UploadStarts =>
              FireStep /\ push'.payload = Encrypt(wallet.rec, password)
     ]_vars

\* two triggers were coalesced and the one push is uploading the record of the second
C1_Witness ==
  /\ push.phase = "uploading"
  /\ push.payload = Encrypt(1, password)
  /\ timer = NoTimer
  /\ remote = Encrypt(0, password)

C3_LogoutReenabled == (push.phase = "idle" /\ ~halted) => ~isLogoutDisabled

\* a push has ended in the catch block after its self-check failed
C3_Witness ==
  /\ <<"msg", "Decryption failed">> \in Range(called)
  /\ push.phase = "idle"
  /\ ~isLogoutDisabled

C5_PreconditionFails ==
  [][ (FireStep /\ (wallet.sharedKeyLen # 36 \/ ~wallet.isEncryptionConsistent))
      => /\ \E c \in Range(called') : c[1] = "throw"
         /\ NoRequestSent
         /\ isLogoutDisabled' = isLogoutDisabled
         /\ StoredUnchanged ]_vars

\* syncWallet has thrown on a sharedKey of 10 characters
C5_Witness ==
  /\ wallet.sharedKeyLen = 10
  /\ called = << <<"throw", "Cannot backup wallet now. Shared key is not set">> >>

(* C6: a run of syncWallet whose encryption gave an empty ciphertext, or    *)
(* whose self-check decryption failed, sends no `update` request and leaves *)
(* the stored ciphertext and checksum as they are.                          *)
C6_SelfCheckAborts ==
  [][ (FireStep /\ \E c \in Range(called') :
           c \in {<<"msg", "Error encrypting the JSON output">>, <<"msg", "Decryption failed">>})
      => push' = push /\ ~UploadStarts /\ StoredUnchanged ]_vars

\* a run has been aborted on an empty ciphertext
C6_Witness ==
  /\ <<"msg", "Error encrypting the JSON output">> \in Range(called)
  /\ push.phase = "idle"

\* a step in which the checksum verification of a push ends
VerifyEnds == push.phase = "verifying" /\ push'.phase # "verifying" /\ ~halted'
\* a step in which the upload of a push ends in its error callback ("e" is
\* the error of the transport)
UploadFails == push.phase = "uploading" /\ <<"msg", "e">> \in Range(called') /\ ~halted'
Mismatch == "Checksum Did Not Match Expected Value"

(* C7: when the verification of an acknowledged upload ends while the store *)
(* holds another checksum than the one uploaded, the error callback (if     *)
(* given) is called with the checksum-mismatch error,                       *)
(* isSynchronizedWithServer is false before and after, logout is enabled    *)
(* again, and the push is over: no `update` request is sent again.          *)
C7_ChecksumMismatch ==
  [][ (VerifyEnds /\ generatePayloadChecksum(remote) # generatePayloadChecksum(push.payload))
      => /\ <<"msg", Mismatch>> \in Range(called')
         /\ push.cb => <<"errorcallback", Mismatch>> \in Range(called')
         /\ <<"successcallback", "">> \notin Range(called')
         /\ ~isSynchronizedWithServer /\ ~isSynchronizedWithServer'
         /\ ~isLogoutDisabled'
         /\ push' = IdlePush ]_vars

\* the caller of a push was told of the mismatch while the flag set by the
\* verification of the push before it still says synchronized
C7_Witness ==
  /\ <<"errorcallback", Mismatch>> \in Range(called)
  /\ isSynchronizedWithServer
  /\ ~isLogoutDisabled
  /\ push.phase = "idle"

(* C8: when the upload of a push fails, exactly one getWallet request is    *)
(* sent, the error callback (if given) is called exactly once, the push is  *)
(* over and nothing is scheduled by it; an `update` request is sent by a    *)
(* timer expiry only, and the timer is started by a trigger only.           *)
C8_UploadError ==
  [][ /\ UploadFails =>
           /\ fetches' = fetches (+) SetToBag({getWalletRequest(payloadChecksum, FALSE)})
           /\ called' = << <<"msg", "e">> >> \o Maybe(push.cb, <<"errorcallback", "e">>)
           /\ push' = IdlePush
           /\ timer' = timer /\ burst' = burst
      /\ UploadStarts => (timer # NoTimer /\ timer' = NoTimer)
      /\ (timer = NoTimer /\ timer' # NoTimer) => TriggerStep
    ]_vars

\* an upload has failed: its caller was told once and one fetch is outstanding
C8_Witness ==
  /\ called = << <<"msg", "e">>, <<"errorcallback", "e">> >>
  /\ BagCardinality(fetches) = 1
  /\ push.phase = "idle"
  /\ timer = NoTimer

\* a step in which the answer to a getWallet request stores another ciphertext
FetchStores ==
  /\ BagCardinality(fetches') < BagCardinality(fetches)
  /\ encryptedWalletData' # encryptedWalletData
  /\ ~halted'

(* C10: when the answer to a getWallet request stores a ciphertext that     *)
(* does not decrypt, a logout request is sent whether or not logout is      *)
(* disabled, the error callback is called if given (and the success         *)
(* callback is not), and no getWallet request is sent again; so whenever    *)
(* the stored ciphertext does not decrypt, the session is logging out.      *)
C10_DecryptFailureLogsOut ==
  /\ []((~halted /\ ~CanDecrypt(encryptedWalletData, password)) => loggingOut)
  /\ [][ (FetchStores /\ ~CanDecrypt(encryptedWalletData', password))
         => /\ loggingOut'
            /\ \E f \in BagToSet(fetches) :
                 /\ fetches' = fetches (-) SetToBag({f})
                 /\ called' = Maybe(f.cb, <<"error", "">>)
            /\ wallet' = wallet ]_vars

\* a forced logout was sent while logout was disabled, and the caller was told
C10_Witness ==
  /\ ~CanDecrypt(encryptedWalletData, password)
  /\ loggingOut
  /\ isLogoutDisabled
  /\ called = << <<"error", "">> >>

\* the frame onMessage handled last was an on_change frame carrying c
HandledOnChange(c) == called # << >> /\ called[1] = <<"on_change", c>>

(* C9: an on_change frame carrying checksum c sends a getWallet request if  *)
(* and only if c differs from last_on_change and from the checksum of the   *)
(* stored ciphertext; last_on_change becomes c exactly then, and is changed *)
(* by nothing else.                                                         *)
C9_Suppression ==
  [][ /\ \A c \in Checksums :
           (called' # << >> /\ called'[1] = <<"on_change", c>>) =>
              LET fetch == c # last_on_change
                           /\ c # generatePayloadChecksum(encryptedWalletData)
              IN  /\ fetch => /\ fetches' = fetches (+) SetToBag({getWalletRequest(payloadChecksum, FALSE)})
                              /\ last_on_change' = c
                  /\ ~fetch => fetches' = fetches /\ last_on_change' = last_on_change
      /\ (last_on_change' # last_on_change /\ ~halted')
           => (called' # << >> /\ called'[1] = <<"on_change", last_on_change'>>)
    ]_vars

\* a frame that repeats the checksum acted upon last has been dropped
C9_Witness ==
  /\ last_on_change # NoChecksum
  /\ HandledOnChange(last_on_change)
  /\ last_on_change # generatePayloadChecksum(encryptedWalletData)
  /\ fetches = EmptyBag

\* a step in which the application calls MyWallet.login
LoginCall ==
  \/ \E pw \in LoginPasswords : login_fetch(pw)
  \/ \E pw \in LoginPasswords, code \in Codes :
       login_refetchSkipped(pw, code) \/ login_badCode(pw, code) \/ login_submitCode(pw, code)

\* a step in which the answer to a request of login is handled
LoginAnswer ==
  \E f \in LoginRequests :
    \/ login_payload(f) \/ login_needsTwoFactor(f) \/ login_nullGuid(f)
    \/ login_serverError(f) \/ login_authorizationRequired(f)
    \/ login_codeAccepted(f) \/ login_emptyData(f) \/ login_codeRejected(f)

(* C11: a call of login made while the session is initialized or a restore  *)
(* is in progress does nothing: it sends no request, it invokes no callback *)
(* and throws nothing, and the stored guid, the stored ciphertext, the      *)
(* password, the restoring flag and the wallet record are unchanged.        *)
C11_LoginIsNoOp ==
  [][ ((isInitialized \/ isRestoringWallet) /\ LoginCall)
      => /\ logins' = logins
         /\ \A c \in Range(called') : c[1] \in {"login", "twoFactor"}
         /\ UNCHANGED << guid, encryptedWalletData, password, isRestoringWallet, wallet >>
    ]_vars

\* login was called in an initialized session and its request is outstanding
C11_Witness ==
  /\ isInitialized
  /\ called = << <<"login", "G">> >>
  /\ logins # EmptyBag

(* C12: isInitialized, once true, stays true for the lifetime of the        *)
(* process, and socketConnect is called exactly once in that lifetime: not  *)
(* at all before the first payload is decrypted and installed, and never    *)
(* again when later payloads are (login, re-fetch after on_change, re-fetch *)
(* after a failed push).                                                    *)
C12_InitializedLatch ==
  /\ [](~halted => socket.connects = (IF isInitialized THEN 1 ELSE 0))
  /\ [][ (isInitialized /\ ~halted') => isInitialized' ]_vars

\* after the login, a payload written by another device has been fetched
\* and installed
C12_Witness ==
  /\ isInitialized
  /\ ~halted
  /\ socket.connects = 1
  /\ fetches = EmptyBag
  /\ encryptedWalletData = Encrypt(1, "pw")
  /\ wallet.rec = 1
  /\ called = << >>

\* the request of MyWallet.login(G, "pw", {twoFactor: null}, callbacks)
PlainLogin == loginRequest("json", "pw", "")

\* the success callback of login has been invoked in an initialized session
Ready == isInitialized /\ <<"success", "login">> \in Range(called)

(* C13: a login with guid G, no two-factor descriptor and the password of   *)
(* the wallet, whose request the server answers with the payload, leads to  *)
(* the success callback being invoked with isInitialized true (unless the   *)
(* payload of the server stops being one the password decrypts); and once   *)
(* the session is initialized the socket opens and the subscribe frame it   *)
(* sends carries G (unless the process is reloaded first).                  *)
C13_LoginReachesReady ==
  /\ (BagIn(PlainLogin, logins) /\ server = "plain" /\ ~isInitialized)
        ~> (Ready \/ ~CanDecrypt(remote, "pw"))
  /\ isInitialized ~> (halted \/ (socket.open /\ socket.subscribed = "G"))

\* the login has succeeded and the socket has subscribed with G
C13_Witness ==
  /\ isInitialized
  /\ socket.open
  /\ socket.subscribed = "G"
  /\ password = "pw"
  /\ guid = "G"
  /\ wallet.rec = Decrypt(encryptedWalletData, "pw")

\* the two-factor codes that tryToFetchWalletWith2FA refuses
BadCodes == {code \in Codes : CodeLength(code) = 0 \/ CodeLength(code) > MaxCodeLength}

\* a step in which login is called with the two-factor code `code`
LoginCalledWith(code) ==
  /\ Len(called') >= 2
  /\ called'[1] = <<"login", "G">>
  /\ called'[2] = <<"twoFactor", code>>

(* C14: a call of login whose two-factor code is empty or longer than 255   *)
(* characters sends no request, and leaves the stored guid, the stored      *)
(* ciphertext, the password and the restoring flag as they were.            *)
C14_BadCodeRejected ==
  [][ \A code \in BadCodes :
        LoginCalledWith(code)
          => /\ logins' = logins
             /\ UNCHANGED << guid, encryptedWalletData, payloadChecksum, password,
                             isRestoringWallet, isInitialized, wallet >>
    ]_vars

\* login was called with an over-long code and sent nothing, in a session
\* that has the guid but not the payload yet
C14_Witness ==
  /\ Len(called) >= 2
  /\ called[2] = <<"twoFactor", "long">>
  /\ guid = "G"
  /\ Length(encryptedWalletData) = 0
  /\ logins = EmptyBag

\* a step in which the answer of a server that rejects the two-factor code
\* of the request f is handled
CodeRejectedStep(f) ==
  /\ f.kind = "2fa"
  /\ server = "newDevice" \/ (server = "twoFactor" /\ f.key # RightCode)
  /\ BagIn(f, logins)
  /\ logins' = logins (-) SetToBag({f})
  /\ ~halted'

(* C15: when the server rejects the two-factor code that login submitted,   *)
(* the wrongTwoFactorCode callback is invoked (and no other), the restoring *)
(* flag is false afterwards, and the stored guid, the stored ciphertext,    *)
(* the password and isInitialized are unchanged.                            *)
C15_WrongCode ==
  [][ \A f \in LoginRequests :
        CodeRejectedStep(f)
          => /\ called' = << <<"wrongTwoFactorCode", "response">> >>
             /\ ~isRestoringWallet'
             /\ UNCHANGED << guid, encryptedWalletData, payloadChecksum, password,
                             isInitialized, wallet >>
    ]_vars

\* the server has rejected a code of a login for a wallet whose guid is
\* stored and whose payload is not
C15_Witness ==
  /\ called = << <<"wrongTwoFactorCode", "response">> >>
  /\ server = "twoFactor"
  /\ guid = "G"
  /\ Length(encryptedWalletData) = 0
  /\ ~isInitialized
  /\ ~isRestoringWallet

\* a step in which login detects an authentication failure: a refused code,
\* an answer without a guid, a structured error, empty wallet data, a
\* rejected code, a payload that the password does not decrypt
LoginFailure ==
  \/ \E code \in BadCodes : LoginCalledWith(code)
  \/ \E f \in LoginRequests :
       \/ login_nullGuid(f) \/ login_serverError(f)
       \/ login_emptyData(f) \/ login_codeRejected(f)
       \/ /\ login_payload(f) \/ login_codeAccepted(f)
          /\ ~initializeWalletGuard
          /\ ~CanDecrypt(remote, f.pw)

\* the calls of a handler hand the failure to otherError or to
\* wrongTwoFactorCode and throw nothing
Delivered(calls) ==
  /\ \E c \in Range(calls) : c[1] \in {"otherError", "wrongTwoFactorCode"}
  /\ \A c \in Range(calls) : c[1] # "throw"

(* C16: every authentication failure that login detects (an answer without *)
(* a guid, an empty or over-long two-factor code, empty wallet data after   *)
(* the code was submitted, a structured server error, a decrypt failure, a  *)
(* rejected code) is handed to the otherError or the wrongTwoFactorCode     *)
(* callback, and login throws nothing.                                      *)
C16_FailuresUseCallbacks ==
  [][ LoginFailure => Delivered(called') ]_vars

\* login was called with an empty two-factor code and has thrown
C16_Witness ==
  called = << <<"login", "G">>, <<"twoFactor", "">>, <<"throw", "ReferenceError">> >>

\* the payload was fetched and stored, and the password given to login did
\* not decrypt it
DecryptFailed ==
  /\ ~isInitialized
  /\ guid = "G"
  /\ Length(encryptedWalletData) # 0
  /\ ~CanDecrypt(encryptedWalletData, password)

\* a step in which the answer to a request of login stores a payload that
\* the password of that login does not decrypt
DecryptFails ==
  \E f \in LoginRequests :
    /\ login_payload(f) \/ login_codeAccepted(f)
    /\ ~initializeWalletGuard
    /\ ~CanDecrypt(remote, f.pw)

\* a step in which login is called again, without a two-factor descriptor or
\* with one whose code has an acceptable length
RetryCall ==
  \E pw \in LoginPasswords :
    \/ login_fetch(pw)
    \/ \E code \in Codes \ BadCodes :
         login_refetchSkipped(pw, code) \/ login_submitCode(pw, code)

(* C17: a decrypt failure during the login reports otherError and leaves    *)
(* the restoring flag false; and a login called afterwards for the same     *)
(* guid, without a two-factor descriptor or with one, is carried out: it    *)
(* throws nothing and sends its request, so that with the right password    *)
(* the session can still become ready.                                      *)
C17_DecryptFailureRecoverable ==
  [][ /\ DecryptFails
        => /\ <<"otherError", "decrypt">> \in Range(called')
           /\ ~isRestoringWallet'
           /\ ~isInitialized'
      /\ (DecryptFailed /\ RetryCall)
        => /\ \A c \in Range(called') : c[1] # "throw"
           /\ logins' # logins
    ]_vars

\* after a decrypt failure, login was called with a two-factor descriptor
\* and has thrown
C17_Witness ==
  /\ DecryptFailed
  /\ password = "bad"
  /\ called = << <<"login", "G">>, <<"twoFactor", "abc123">>,
                 <<"throw", "ReferenceError">> >>

(* C18: a poll has sent at most 600 requests, whatever the answers, and the *)
(* polling counter is at most 600.                                          *)
C18_PollBounded ==
  /\ poll.sent <= PollLimit
  /\ counter <= PollLimit

\* a poll that started with the counter at 0 has its last request
\* outstanding: the counter is at the limit
C18_Witness ==
  /\ isPolling
  /\ counter = PollLimit
  /\ poll.requests = 1
  /\ poll.sent = PollLimit + 1

(* C20: at most one poll is active at a time.  A call of pollForSessionGUID *)
(* made while a poll is active sends no request and changes nothing of the  *)
(* poll; at most one poll request or poll timer is outstanding; and the     *)
(* polling guard is true exactly while one is, so it is false again once    *)
(* the poll has ended.                                                      *)
C20_SinglePoll ==
  /\ [](poll.requests + poll.timers <= 1)
  /\ [](isPolling <=> (poll.requests + poll.timers = 1))
  /\ [][ (isPolling /\ MyWallet_pollForSessionGUID)
           => /\ UNCHANGED pollVars
              /\ called' = << <<"pollForSessionGUID", "return">> >> ]_vars

\* pollForSessionGUID was called while the timer of an active poll was
\* running, and returned at once
C20_Witness ==
  /\ isPolling
  /\ poll.timers = 1
  /\ poll.requests = 0
  /\ counter > 1
  /\ called = << <<"pollForSessionGUID", "return">> >>

(* C19: the label of an Address is always unset (undefined or null) or a    *)
(* string the validator accepts, however the Address was made; and an       *)
(* assignment that the setter rejects leaves the label as it was and calls  *)
(* no MyWallet.syncWallet.                                                  *)
C19_LabelValid ==
  /\ [](address.exists => (isNullish(address.label) \/ isValidLabel(address.label)))
  /\ [][ (\E str \in Labels : label_rejected(str))
           => /\ address' = address
              /\ timer' = timer
              /\ isSynchronizedWithServer' = isSynchronizedWithServer
              /\ <<"throw", "label">> \in Range(called') ]_vars

\* an Address holds a label that the validator refuses
C19_Witness ==
  /\ address.exists
  /\ address.label = "<script>"
  /\ ~isValidLabel(address.label)

\* a step in which the active poll ends
PollEnds == isPolling /\ ~isPolling'

\* a step in which an answer without a guid finds the counter at the limit
PollExhausted == poll_pending /\ ~pollAgain

(* C21: an active poll ends only when an answer carries a guid or when the  *)
(* attempt bound is reached; a poll request that fails below the bound is   *)
(* sent again and the poll stays active.                                    *)
C21_PollEndsOnlyWhenDone ==
  [][ /\ PollEnds => (poll_authorized \/ PollExhausted)
      /\ (poll_error /\ pollAgain) => (isPolling' /\ poll'.requests + poll'.timers = 1)
    ]_vars

\* a poll request has failed before the device was authorized and before
\* the counter reached the limit, and no poll is active
C21_Witness ==
  /\ ~isPolling
  /\ poll = IdlePoll
  /\ server = "newDevice"
  /\ counter > 0
  /\ counter < PollLimit

\* the frames that are not an object with a recognized op: text that does
\* not parse, the JSON text null, an object with another op
MalformedFrames ==
  {m \in Frames : m.kind # "json" \/ m.op \notin {"on_change", "utx", "block", "pong"}}

(* C22: a frame that does not parse, or that parses to something that is    *)
(* not an object with a recognized op, is dropped: onMessage throws         *)
(* nothing, invokes nothing, sends no getWallet request and leaves          *)
(* last_on_change, the wallet and the stored payload as they were.          *)
C22_MalformedDropped ==
  [][ \A m \in MalformedFrames :
        onMessage(m)
          => /\ called' = << >>
             /\ UNCHANGED << fetches, last_on_change, wallet, encryptedWalletData,
                             payloadChecksum, isSynchronizedWithServer >>
    ]_vars

\* onMessage was handed the frame `null` and has thrown
C22_Witness ==
  /\ isInitialized
  /\ called = << <<"throw", "TypeError">> >>

\* a step in which onMessage handles an on_change frame that passes the
\* test of line 47
OnChangePasses ==
  \E m \in Frames :
    /\ m.kind = "json" /\ m.op = "on_change"
    /\ onChangeFetches(m.checksum)
    /\ onMessage(m)

(* C23: an on_change frame that passes the suppression rule while a push is *)
(* in flight starts no getWallet request during that push (the fetch is     *)
(* started once the push has completed).                                    *)
C23_FetchQueuedBehindPush ==
  [][ (PushInFlight /\ OnChangePasses) => fetches' = fetches ]_vars

\* an on_change frame was handled while the update request of a push was
\* outstanding, and its getWallet request is outstanding too
C23_Witness ==
  /\ push.phase = "uploading"
  /\ last_on_change # NoChecksum
  /\ called = << <<"on_change", last_on_change>> >>
  /\ \E f \in BagToSet(fetches) : f.checksum = generatePayloadChecksum(push.payload)

\* a step in which an Address is made: the constructor, import, new
AddressMade ==
  \/ \E priv \in Keys, label \in Labels : Address(priv, label)
  \/ \E key \in KeyKinds, label \in Labels : Address_import(key, label)

\* a step in which encrypt or decrypt is called
CipherCall ==
  \E cipher \in Ciphers : Address_encrypt(cipher) \/ Address_decrypt(cipher)

(* C24: encrypt and decrypt never change the stored private key: they write *)
(* the ciphered key to the staging field only, and write nothing on a       *)
(* watch-only Address or when they throw because the cipher yields no key.  *)
(* The stored key of an Address changes only by persist, which replaces it  *)
(* by the staged key; after persist nothing is staged, and persist with     *)
(* nothing staged changes nothing.                                          *)
C24_KeyStaging ==
  [][ /\ CipherCall
        => /\ address'.priv = address.priv
           /\ address'.label = address.label
           /\ (address.priv = NoKey \/ called' # << >>) => address' = address
           /\ called' # << >> => called'[1][1] = "throw"
      /\ (address.exists /\ address'.priv # address.priv /\ ~AddressMade)
        => /\ Address_persist
           /\ address.temporal_priv # NoStagedKey
           /\ address'.priv = address.temporal_priv
      /\ Address_persist
        => /\ address'.temporal_priv = NoStagedKey
           /\ address.temporal_priv = NoStagedKey => address' = address
    ]_vars

\* encrypt has staged the ciphered key of an Address, and the stored key is
\* still the key in base58
C24_Witness ==
  /\ address.exists
  /\ address.priv = "base58"
  /\ address.temporal_priv = "ciphered"
  /\ called = << >>

(* C25: every trigger of MyWallet.syncWallet sets isSynchronizedWithServer  *)
(* to false, and the flag is true only when no trigger has occurred since   *)
(* the record of the last verified push was serialized, that is, when no    *)
(* scheduled push is waiting for its timer.  (What another device writes    *)
(* to the remote store in the meantime is not counted against the flag.)    *)
C25_SynchronizedMeansSaved ==
  /\ []((isSynchronizedWithServer /\ ~halted) => timer = NoTimer)
  /\ [][ TriggerStep => ~isSynchronizedWithServer' ]_vars

\* the flag is true while a scheduled push waits for its timer with a record
\* that differs from the one last pushed
C25_Witness ==
  /\ isSynchronizedWithServer
  /\ ~halted
  /\ timer # NoTimer
  /\ push.phase = "idle"
  /\ CanDecrypt(encryptedWalletData, password)
  /\ wallet.rec # Decrypt(encryptedWalletData, password)
  /\ remote = encryptedWalletData

====
